---- MODULE Spec2Model ----
(***************************************************************************)
(* A model of the drone-formation map component (src/app/components/       *)
(* Map.tsx) and of the page that drives it (src/app/page.tsx).             *)
(*                                                                         *)
(* Numbers.  Lengths are in centi-feet (cf).  A coordinate is an integer   *)
(* number of units u of latitude/longitude degree, measured from the datum *)
(* (the fallback point of Map.tsx:185), with                               *)
(*        1 u = 0.44704 / 111320 / 1000 / 1000 degree                      *)
(* so that one mph for one millisecond along a factor 1 direction vector   *)
(* is exactly 1000 u (Map.tsx:42-44, 71-73), and one centi-foot of ground  *)
(* north-south is 6818 u (Map.tsx:106-108, 120-121).  Sines are fixed      *)
(* point numbers scaled by SinScale, tabulated every 1.5 degrees.          *)
(***************************************************************************)
EXTENDS Integers, Sequences, FiniteSets, TLC

\* ------------------------------------------------------------------ bounds

\* The clock of the model stops advancing at MaxTime (milliseconds).
MaxTime == 2000

\* At most MaxEdits changes of the motion props (speed, direction,
\* start/stop) and MaxRecalcs changes of the props that place the formation
\* (numDrones, feetApart, and address once it has been geocoded).
MaxEdits == 3

MaxRecalcs == 1

\* --------------------------------------------------------------- constants

\* Fixed-point scale of Sin and of CosCenterLat.
SinScale == 10000

\* Angle units in a full turn (2 * Math.PI): 1.5 degrees each.
Grid == 240

\* u per centi-foot: 0.01 / feetPerMeter / metersPerDegreeLat in u.
UnitsPerCentiFoot == 6818

\* Math.cos(centerLat * Math.PI / 180) at the datum's latitude 39.0997,
\* scaled by SinScale.  Every centre of the model lies within a kilometre
\* of the datum, where the cosine differs by less than 1/SinScale.
CosDatumLat == 7760

\* A magnitude beyond every coordinate the model otherwise produces: what
\* spacingFeet / (2 * Math.sin(Math.PI)) = spacingFeet / 2.4e-16 comes to.
Huge == 2000000000

\* Number.POSITIVE_INFINITY: what spacingFeet / (2 * Math.sin(...)) is when
\* the quotient exceeds the largest double.
Infinity == 2100000000

\* Number.NaN: Infinity * 0, parseFloat of text that is not a number, and a
\* product with undefined.
NaN == 2147000000

\* ---------------------------------------------------------------- inputs

\* numDrones values offered by the page's select (those whose angle step
\* and half step fall on the 1.5 degree grid), used by the running model.
NumDronesOptions == {4, 8}

\* numDrones values given to calculateDronePositions on its own.
CalcDroneCounts == {-1, 0, 1, 2, 3, 4, 5, 6, 8, 10, 12}

FeetOptions == {50, 100}

CalcFeet == {10, 50, 100}

SpeedOptions == {5, 10}

Directions == {"N", "NE", "E", "SE", "S", "SW", "W", "NW"}

DirectionOptions == {"N", "SW"}

\* Centre points <<lon, lat>> a geocoding result can be, in u from the datum.
Centres == {<<0, 0>>, <<5000000, -3000000>>}

\* Time between two events of the model, in milliseconds.
Intervals == {1000}

\* ------------------------------------------------------------- arithmetic

Abs(x) == IF x < 0 THEN -x ELSE x

Sgn(x) == IF x < 0 THEN -1 ELSE IF x > 0 THEN 1 ELSE 0

IsNaN(x) == x = NaN

IsInf(x) == x = Infinity \/ x = -Infinity

IsHuge(x) == x >= Huge \/ x <= -Huge

\* a * s / SinScale without leaving 32 bits; NaN times anything is NaN,
\* Infinity times 0 is NaN, Huge times anything but 0 is Huge, Huge times 0
\* is 0 (that radius is a large finite number in the code).
MulFix(a, s) ==
    IF IsNaN(a) \/ IsNaN(s) THEN NaN
    ELSE IF IsInf(a) THEN (IF s = 0 THEN NaN ELSE Sgn(a) * Sgn(s) * Infinity)
    ELSE IF IsHuge(a) THEN Sgn(a) * Sgn(s) * Huge
    ELSE LET x == Abs(a)
             y == Abs(s)
             p == (x \div SinScale) * y + ((x % SinScale) * y) \div SinScale
         IN  Sgn(a) * Sgn(s) * p

\* a * SinScale / c for a >= 0 and c > 0, without leaving 32 bits.
DivFix(a, c) ==
    IF IsNaN(a) \/ IsNaN(c) THEN NaN
    ELSE IF IsHuge(a) THEN a
    ELSE (a \div c) * SinScale + ((a % c) * SinScale) \div c

\* x + d in floating point: NaN if a term is, or if the terms are opposite
\* infinities; an infinite term, then a Huge term, swamps the other.
Plus(x, d) ==
    IF IsNaN(x) \/ IsNaN(d) THEN NaN
    ELSE IF IsInf(x) THEN (IF IsInf(d) /\ d # x THEN NaN ELSE x)
    ELSE IF IsInf(d) THEN d
    ELSE IF IsHuge(x) THEN x
    ELSE IF IsHuge(d) THEN d
    ELSE x + d

\* a * b in floating point, for finite a.
Times(a, b) == IF IsNaN(b) THEN NaN ELSE a * b

\* Math.sin over a quarter turn, every 1.5 degrees, scaled by SinScale.
SinTable ==
    << 0, 262, 523, 785, 1045, 1305, 1564, 1822, 2079, 2334, 2588, 2840,
       3090, 3338, 3584, 3827, 4067, 4305, 4540, 4772, 5000, 5225, 5446,
       5664, 5878, 6088, 6293, 6494, 6691, 6884, 7071, 7254, 7431, 7604,
       7771, 7934, 8090, 8241, 8387, 8526, 8660, 8788, 8910, 9026, 9135,
       9239, 9336, 9426, 9511, 9588, 9659, 9724, 9781, 9833, 9877, 9914,
       9945, 9969, 9986, 9997, 10000 >>

\* Math.sin of an angle given in grid units.
Sin(a) ==
    LET t == a % Grid
        q == Grid \div 4
    IN  IF t <= q THEN SinTable[t + 1]
        ELSE IF t <= 2 * q THEN SinTable[2 * q - t + 1]
        ELSE IF t <= 3 * q THEN -SinTable[t - 2 * q + 1]
        ELSE -SinTable[4 * q - t + 1]

\* Math.cos of an angle given in grid units.
Cos(a) == Sin(a + Grid \div 4)

\* Math.cos(centerLat * Math.PI / 180), scaled by SinScale.
CosCenterLat(centerLat) == IF IsNaN(centerLat) THEN NaN ELSE CosDatumLat

\* a * Math.sin(angle) and a * Math.cos(angle).  Math.sin is exactly 0 only
\* at angle 0 and Math.cos is never 0: at the other angles where the table
\* has 0, Math.sin(Math.PI) = 1.2e-16, Math.cos(Math.PI / 2) = 6.1e-17 and
\* Math.cos(3 * Math.PI / 2) = -1.8e-16, which times Infinity is infinite.
TimesSin(a, angle) ==
    IF IsInf(a) /\ Sin(angle) = 0 /\ angle % Grid # 0 THEN a
    ELSE MulFix(a, Sin(angle))

TimesCos(a, angle) ==
    IF IsInf(a) /\ Cos(angle) = 0
    THEN (IF angle % Grid = Grid \div 4 THEN a ELSE -a)
    ELSE MulFix(a, Cos(angle))

\* ------------------------------------------------- calculateDronePositions

\* angleBetweenDrones, angleStep = (2 * Math.PI) / numDrones, in grid units.
angleStep(nd) == Grid \div nd

\* radiusFeet = spacingFeet / (2 * Math.sin(angleBetweenDrones / 2)), in cf.
\* Math.sin(Math.PI) is 1.2e-16, not 0: the quotient is finite and huge.
radiusFeetHalved(nd, fa) ==
    LET s == Sin(Grid \div (2 * nd))
    IN  IF s = 0 THEN Huge ELSE (fa * 100 * SinScale) \div (4 * s)

radiusFeet(nd, fa) ==
    LET s == Sin(Grid \div (2 * nd))
    IN  IF IsInf(fa) THEN fa
        ELSE IF s = 0 THEN Huge
        ELSE (fa * 100 * SinScale) \div (2 * s)

\* radiusLat = radiusFeet / feetPerMeter / metersPerDegreeLat, in u.
radiusLat(nd, fa) ==
    IF IsInf(radiusFeet(nd, fa)) THEN radiusFeet(nd, fa)
    ELSE IF IsHuge(radiusFeet(nd, fa)) THEN Huge
    ELSE radiusFeet(nd, fa) * UnitsPerCentiFoot

\* radiusLon = radiusMeters / (111320 * Math.cos(centerLat * Math.PI / 180)).
radiusLon(centerLat, nd, fa) ==
    DivFix(radiusLat(nd, fa), CosCenterLat(centerLat))

\* The i-th point pushed by the loop, [lon, lat].
dronePointSwapped(centerLat, centerLon, nd, fa, i) ==
    LET angle == i * angleStep(nd)
    IN  << Plus(centerLon, MulFix(radiusLon(centerLat, nd, fa), Sin(angle))),
           Plus(centerLat, MulFix(radiusLat(nd, fa), Cos(angle))) >>

dronePoint(centerLat, centerLon, nd, fa, i) ==
    LET angle == i * angleStep(nd)
        lat   == Plus(centerLat, TimesSin(radiusLat(nd, fa), angle))
        lon   == Plus(centerLon, TimesCos(radiusLon(centerLat, nd, fa), angle))
    IN  <<lon, lat>>

\* calculateDronePositions(centerLat, centerLon) of a render whose props are
\* numDrones = nd and feetApart = fa: for (i = 0; i < numDrones; i++) push.
calculateDronePositions(centerLat, centerLon, nd, fa) ==
    IF nd < 1 THEN << >>
    ELSE [k \in 1..nd |-> dronePoint(centerLat, centerLon, nd, fa, k - 1)]

\* ------------------------------------------------------------------ state

VARIABLES
    numDrones,          \* page.tsx: useState(8)
    feetApart,          \* page.tsx: useState(100)
    speed,              \* page.tsx: useState(5)
    isMoving,           \* page.tsx: useState(true)
    direction,          \* page.tsx: useState('N')
    edits,              \* number of changes of the motion controls so far
    recalcs,            \* number of changes of the formation props so far
    coordinates,        \* Map.tsx: useState(null); Null or <<lon, lat>>
    now,                \* the clock, in milliseconds (performance.now())
    refs,               \* the refs of Map and the callbacks they own (below)
    calcCalled,         \* calculateDronePositions has been called
    dronePositions      \* what its latest call returned

vars == << numDrones, feetApart, speed, isMoving, direction, edits, recalcs,
           coordinates, now, refs, calcCalled, dronePositions >>

Null == << >>

\* refs is a record of
\*   mapCur            map.current: 0 (null) or the number of the map
\*   maps              per map created: the closure of the timer callback
\*                     that created it (coords, nd, fa) and which of its
\*                     callbacks are still to come: a = 1, 2, 3 the 1.5 s,
\*                     3 s, 5 s timeouts (4: none), b = "wait" (the load
\*                     event), "l200", "l300" (the timeouts the two load
\*                     handlers set), "done", "dead" (map removed unloaded)
\*   initTimer         the pending 50 ms timeout: a set of at most one closure
\*   mapCleanup        the map effect's latest run returned its cleanup
\*   markersRef        markersRef.current: the markers' [lon, lat]
\*   dronePositionsRef dronePositionsRef.current
\*   addressMarkers    red address markers on the current map
\*   animationRef      animationRef.current: 0 (null) or a request id
\*   lastTimeRef       lastTimeRef.current
\*   frames            pending requestAnimationFrame callbacks: the request
\*                     id and the speed, direction, isMoving animate closes over
\*   animCleanup       the animation effect's latest run returned its cleanup
InitRefs ==
    [ mapCur |-> 0, maps |-> << >>, initTimer |-> {}, mapCleanup |-> FALSE,
      markersRef |-> << >>, dronePositionsRef |-> << >>, addressMarkers |-> 0,
      animationRef |-> 0, lastTimeRef |-> 0, frames |-> {},
      animCleanup |-> FALSE ]

\* The state after the first render and its effects: the animation effect
\* returned early (no map), geocodeAddress is in flight, the recalculate
\* and map effects returned early (coordinates is null).
Init ==
    /\ numDrones = 8
    /\ feetApart = 100
    /\ speed = 5
    /\ isMoving = TRUE
    /\ direction = "N"
    /\ edits = 0
    /\ recalcs = 0
    /\ coordinates = Null
    /\ now = 1
    /\ refs = InitRefs
    /\ calcCalled = FALSE
    /\ dronePositions = << >>

\* ------------------------------------------------------- animation effect

\* directionVectors, [lat, lon] multipliers in thousandths.
directionVectors ==
    [ N  |-> <<1000, 0>>,    NE |-> <<707, 707>>,
      E  |-> <<0, 1000>>,    SE |-> <<-707, 707>>,
      S  |-> <<-1000, 0>>,   SW |-> <<-707, -707>>,
      W  |-> <<0, -1000>>,   NW |-> <<707, -707>> ]

\* The keys every object literal inherits from Object.prototype: looking
\* one of them up in directionVectors gives a function (or, for __proto__,
\* an object), which is truthy and has no element 0 or 1.
InheritedKeys ==
    {"constructor", "toString", "toLocaleString", "valueOf", "hasOwnProperty",
     "isPrototypeOf", "propertyIsEnumerable", "__proto__"}

\* [1, 0] for every key.
vectorAlwaysNorth(dir) == <<1000, 0>>

\* directionVectors[direction] || [1, 0], as its elements 0 and 1 enter the
\* products of animate (undefined there makes the product NaN).
vector(dir) ==
    IF dir \in DOMAIN directionVectors THEN directionVectors[dir]
    ELSE IF dir \in InheritedKeys THEN <<NaN, NaN>>
    ELSE <<1000, 0>>

\* degreesPerMs, in thousands of u per millisecond.
degreesPerMs(spd) == spd

\* requestAnimationFrame's return value: an id no pending request has.
requestId(r) ==
    CHOOSE i \in 1..(Cardinality(r.frames) + 2) :
        /\ i # r.animationRef
        /\ \A f \in r.frames : f.id # i
        /\ \A j \in 1..(i - 1) : j = r.animationRef \/ \E f \in r.frames : f.id = j

\* if (animationRef.current) { cancelAnimationFrame(...); ... = null }
cancelKeepsFrame(r) == [r EXCEPT !.animationRef = 0]

cancelPending(r) ==
    IF r.animationRef # 0
    THEN [r EXCEPT !.frames = {f \in @ : f.id # r.animationRef},
                   !.animationRef = 0]
    ELSE r

\* The body of the animation effect, for a render with the given props.
animationEffectKeepsTime(r, moving, spd, dir) ==
    IF ~moving \/ r.mapCur = 0 \/ Len(r.markersRef) = 0
    THEN [cancelPending(r) EXCEPT !.animCleanup = FALSE]
    ELSE LET id == requestId(r)
         IN  [r EXCEPT !.animationRef = id,
                       !.frames = @ \cup {[id |-> id, speed |-> spd,
                                           direction |-> dir, isMoving |-> moving]},
                       !.animCleanup = TRUE]

animationEffect(r, moving, spd, dir) ==
    IF ~moving \/ r.mapCur = 0 \/ Len(r.markersRef) = 0
    THEN [cancelPending(r) EXCEPT !.animCleanup = FALSE]
    ELSE LET id == requestId(r)
         IN  [r EXCEPT !.lastTimeRef = 0,
                       !.animationRef = id,
                       !.frames = @ \cup {[id |-> id, speed |-> spd,
                                           direction |-> dir, isMoving |-> moving]},
                       !.animCleanup = TRUE]

\* A change of isMoving, speed or direction: the cleanup the previous run
\* returned (if it returned one), then the body.
animationRerunNoCleanup(r, moving, spd, dir) ==
    animationEffect(r, moving, spd, dir)

animationRerun(r, moving, spd, dir) ==
    animationEffect(IF r.animCleanup THEN cancelPending(r) ELSE r,
                    moving, spd, dir)

\* The forEach of animate: every marker whose index has a stored position.
moveDronesFirstOnly(r, latChange, lonChange) ==
    LET moved(i) == IF i = 1
                    THEN << Plus(r.dronePositionsRef[i][1], lonChange),
                            Plus(r.dronePositionsRef[i][2], latChange) >>
                    ELSE r.dronePositionsRef[i]
        pos == [i \in 1..Len(r.dronePositionsRef) |-> moved(i)]
    IN  [r EXCEPT !.dronePositionsRef = pos,
                  !.markersRef = [i \in 1..Len(r.markersRef) |->
                                    IF i <= Len(pos) THEN pos[i] ELSE @[i]]]

moveDrones(r, latChange, lonChange) ==
    LET moved(i) == << Plus(r.dronePositionsRef[i][1], lonChange),
                       Plus(r.dronePositionsRef[i][2], latChange) >>
        pos == [i \in 1..Len(r.dronePositionsRef) |->
                  IF i <= Len(r.markersRef) THEN moved(i)
                  ELSE r.dronePositionsRef[i]]
    IN  [r EXCEPT !.dronePositionsRef = pos,
                  !.markersRef = [i \in 1..Len(r.markersRef) |->
                                    IF i <= Len(pos) THEN pos[i] ELSE @[i]]]

\* deltaTime of animate(currentTime)
deltaTimeFromZero(r, currentTime) == currentTime - r.lastTimeRef

deltaTime(r, currentTime) ==
    currentTime - (IF r.lastTimeRef = 0 THEN currentTime ELSE r.lastTimeRef)

\* animate(currentTime), the callback f that requestAnimationFrame runs.
animate(r, f, currentTime) ==
    LET r0 == [r EXCEPT !.frames = @ \ {f}]
    IN  IF ~f.isMoving THEN r0
        ELSE LET movement  == degreesPerMs(f.speed) * deltaTime(r0, currentTime)
                 latChange == Times(movement, vector(f.direction)[1])
                 lonChange == Times(movement, vector(f.direction)[2])
                 r1 == moveDrones([r0 EXCEPT !.lastTimeRef = currentTime],
                                  latChange, lonChange)
                 id == requestId(r1)
             IN  [r1 EXCEPT !.animationRef = id,
                            !.frames = @ \cup {[f EXCEPT !.id = id]}]

\* ------------------------------------------------------------- the markers

\* isNaN(position[0]) || isNaN(position[1])
invalidPosition(position) == IsNaN(position[1]) \/ IsNaN(position[2])

\* dronePositions.forEach of addMarkers: one marker and one stored position
\* per computed position that is not invalid, in order.
pushDronesUnchecked(r, positions) ==
    [r EXCEPT !.markersRef = @ \o positions,
              !.dronePositionsRef = @ \o positions]

pushDrones(r, positions) ==
    LET valid(position) == ~invalidPosition(position)
    IN  [r EXCEPT !.markersRef = @ \o SelectSeq(positions, valid),
                  !.dronePositionsRef = @ \o SelectSeq(positions, valid)]

\* addMarkers of the recalculate effect (it runs with a map and a centre).
addMarkersRecalc(r, coords, nd, fa) ==
    IF r.mapCur = 0 \/ coords = Null THEN r
    ELSE pushDrones(r, calculateDronePositions(coords[2], coords[1], nd, fa))

\* The recalculate effect of a render with the given props and coordinates.
recalculateEffect(r, coords, nd, fa) ==
    IF r.mapCur # 0 /\ coords # Null /\ Len(r.markersRef) > 0
    THEN addMarkersRecalc([r EXCEPT !.markersRef = << >>,
                                    !.dronePositionsRef = << >>],
                          coords, nd, fa)
    ELSE r

\* addMarkers of the map effect, as closed over by the callbacks of map m:
\* coordinates and calculateDronePositions are those of the render in which
\* the effect ran.
addMarkers(r, m) ==
    IF r.mapCur = 0 THEN r
    ELSE LET env == r.maps[m]
             positions == calculateDronePositions(env.coords[2], env.coords[1],
                                                  env.nd, env.fa)
             r1 == [r EXCEPT !.markersRef = << >>,
                             !.addressMarkers = @ + 1]
         IN  IF Len(positions) = 0 THEN r1 ELSE pushDrones(r1, positions)

\* The cleanup the map effect returns.
mapCleanup(r) ==
    LET r1 == [r EXCEPT !.initTimer = {}, !.markersRef = << >>,
                        !.mapCleanup = FALSE]
    IN  IF r1.mapCur # 0
        THEN [r1 EXCEPT !.mapCur = 0,
                        !.addressMarkers = 0,
                        !.maps[r.mapCur].b = IF @ = "wait" THEN "dead" ELSE @]
        ELSE r1

\* The maps that still have a callback to come (the others are forgotten).
forgetSettled(r) ==
    IF \A m \in 1..Len(r.maps) :
           r.maps[m].a = 4 /\ r.maps[m].b \in {"done", "dead"}
    THEN [r EXCEPT !.maps = << >>]
    ELSE r

\* The body of the map effect: the container is rendered whenever
\* coordinates is set (isLoading goes false in the same update).
mapEffect(r, coords, nd, fa) ==
    IF coords = Null \/ r.mapCur # 0 THEN [r EXCEPT !.mapCleanup = FALSE]
    ELSE [r EXCEPT !.initTimer = {[coords |-> coords, nd |-> nd, fa |-> fa]},
                   !.mapCleanup = TRUE]

\* ---------------------------------------------------------- geocodeAddress

\* What parseFloat makes of the texts the geocoder's answers of the model
\* carry: for a latitude or longitude text, its u from the datum.
GeoNumbers ==
    [ t \in {"39.0997", "-94.5786", "39.099688", "-94.57858"} |->
        CASE t = "39.0997"   -> 0
          [] t = "-94.5786"  -> 0
          [] t = "39.099688" -> -3000000
          [] t = "-94.57858" -> 5000000 ]

\* parseFloat(text): NaN for a text that does not start with a number.
parseFloat(text) ==
    IF text \in DOMAIN GeoNumbers THEN GeoNumbers[text] ELSE NaN

\* [-94.5786, 39.0997]
Fallback == <<0, 0>>

\* What fetch and response.json() can come to: a failure (ok is FALSE) or
\* the decoded array of results.
GeocodeOutcomes ==
    { [ok |-> FALSE, data |-> << >>],
      [ok |-> TRUE,  data |-> << >>],
      [ok |-> TRUE,  data |-> << [lat |-> "39.0997", lon |-> "-94.5786"] >>],
      [ok |-> TRUE,  data |-> << [lat |-> "39.099688", lon |-> "-94.57858"] >>],
      [ok |-> TRUE,  data |-> << [lat |-> "unknown", lon |-> ""] >>] }

\* geocodeAddress: the pair it passes to setCoordinates.
geocodeAddress(o) ==
    IF ~o.ok THEN Fallback
    ELSE IF Len(o.data) > 0
         THEN << parseFloat(o.data[1].lon), parseFloat(o.data[1].lat) >>
         ELSE Fallback

\* ---------------------------------------------------------------- actions

\* No timeout of a map created so far is pending.  The model delivers a
\* further geocoding result (the address prop changed) only then: the
\* address does not change within 5 s of a map's creation, nor within
\* 300 ms of its load event.
Settled ==
    \A m \in 1..Len(refs.maps) :
        refs.maps[m].a = 4 /\ refs.maps[m].b \in {"wait", "done", "dead"}

\* geocodeAddress ends with setCoordinates(c): the effects that depend on
\* coordinates run again, cleanups first, then the bodies in their order.
GeocodeResolved(c) ==
    /\ Settled
    /\ IF coordinates = Null THEN UNCHANGED recalcs
       ELSE recalcs < MaxRecalcs /\ recalcs' = recalcs + 1
    /\ coordinates' = c
    /\ LET r1 == forgetSettled(IF refs.mapCleanup THEN mapCleanup(refs) ELSE refs)
           r2 == recalculateEffect(r1, c, numDrones, feetApart)
       IN  /\ refs' = mapEffect(r2, c, numDrones, feetApart)
           /\ IF r1.mapCur # 0 /\ Len(r1.markersRef) > 0
              THEN /\ calcCalled' = TRUE
                   /\ dronePositions' =
                          calculateDronePositions(c[2], c[1], numDrones, feetApart)
              ELSE UNCHANGED << calcCalled, dronePositions >>
    /\ UNCHANGED << numDrones, feetApart, speed, isMoving, direction, edits, now >>

\* The 50 ms timeout of the map effect: the map is created, its load
\* handlers registered and the 1.5 s, 3 s and 5 s timeouts set.
MapCreated ==
    /\ refs.initTimer # {}
    /\ LET env == CHOOSE e \in refs.initTimer : TRUE
       IN  refs' = IF refs.mapCur # 0 THEN [refs EXCEPT !.initTimer = {}]
                   ELSE [refs EXCEPT
                           !.initTimer = {},
                           !.mapCur = Len(refs.maps) + 1,
                           !.addressMarkers = 0,
                           !.maps = Append(@, [coords |-> env.coords,
                                               nd |-> env.nd, fa |-> env.fa,
                                               a |-> 1, b |-> "wait"])]
    /\ UNCHANGED << numDrones, feetApart, speed, isMoving, direction, edits, recalcs,
                    coordinates, now, calcCalled, dronePositions >>

\* What a call of addMarkers by a callback of map m leaves in calcCalled and
\* dronePositions (the call happens when doit holds and a map exists).
CalcBy(m, doit) ==
    IF doit /\ refs.mapCur # 0
    THEN /\ calcCalled' = TRUE
         /\ dronePositions' =
                calculateDronePositions(refs.maps[m].coords[2], refs.maps[m].coords[1],
                                        refs.maps[m].nd, refs.maps[m].fa)
    ELSE UNCHANGED << calcCalled, dronePositions >>

\* The map's load event: both once('load') handlers set their timeouts.
MapLoad ==
    /\ refs.mapCur # 0
    /\ refs.maps[refs.mapCur].b = "wait"
    /\ refs' = [refs EXCEPT !.maps[refs.mapCur].b = "l200"]
    /\ UNCHANGED << numDrones, feetApart, speed, isMoving, direction, edits, recalcs,
                    coordinates, now, calcCalled, dronePositions >>

\* The 200 ms timeout of the second load handler: if (map.current) addMarkers().
Load200(m) ==
    /\ refs.maps[m].b = "l200"
    /\ refs' = addMarkers([refs EXCEPT !.maps[m].b = "l300"], m)
    /\ CalcBy(m, TRUE)
    /\ UNCHANGED << numDrones, feetApart, speed, isMoving, direction, edits, recalcs,
                    coordinates, now >>

\* The 300 ms timeout of the first load handler: addMarkers().
Load300(m) ==
    /\ refs.maps[m].b = "l300"
    /\ refs' = addMarkers([refs EXCEPT !.maps[m].b = "done"], m)
    /\ CalcBy(m, TRUE)
    /\ UNCHANGED << numDrones, feetApart, speed, isMoving, direction, edits, recalcs,
                    coordinates, now >>

\* The 1.5 s timeout: if (map.current) addMarkers().
Timeout1500(m) ==
    /\ refs.maps[m].a = 1
    /\ refs' = addMarkers([refs EXCEPT !.maps[m].a = 2], m)
    /\ CalcBy(m, TRUE)
    /\ UNCHANGED << numDrones, feetApart, speed, isMoving, direction, edits, recalcs,
                    coordinates, now >>

\* The 3 s timeout: if (map.current && markersRef.current.length === 0).
Timeout3000(m) ==
    /\ refs.maps[m].a = 2
    /\ LET r == [refs EXCEPT !.maps[m].a = 3]
       IN  refs' = IF Len(refs.markersRef) = 0 THEN addMarkers(r, m) ELSE r
    /\ CalcBy(m, Len(refs.markersRef) = 0)
    /\ UNCHANGED << numDrones, feetApart, speed, isMoving, direction, edits, recalcs,
                    coordinates, now >>

\* The 5 s timeout: if (map.current && markersRef.current.length === 0).
Timeout5000(m) ==
    /\ refs.maps[m].a = 3
    /\ LET r == [refs EXCEPT !.maps[m].a = 4]
       IN  refs' = IF Len(refs.markersRef) = 0 THEN addMarkers(r, m) ELSE r
    /\ CalcBy(m, Len(refs.markersRef) = 0)
    /\ UNCHANGED << numDrones, feetApart, speed, isMoving, direction, edits, recalcs,
                    coordinates, now >>

\* A change of the formation controls: setNumDrones / setFeetApart, then the
\* recalculate effect of the new render.
RecalculatedUnguarded(nd, fa) ==
    LET c == IF coordinates = Null THEN Fallback ELSE coordinates
        positions == calculateDronePositions(c[2], c[1], nd, fa)
    IN  /\ refs' = pushDrones([refs EXCEPT !.markersRef = << >>,
                                           !.dronePositionsRef = << >>],
                              positions)
        /\ calcCalled' = TRUE
        /\ dronePositions' = positions

Recalculated(nd, fa) ==
    /\ refs' = recalculateEffect(refs, coordinates, nd, fa)
    /\ IF refs.mapCur # 0 /\ coordinates # Null /\ Len(refs.markersRef) > 0
       THEN /\ calcCalled' = TRUE
            /\ dronePositions' =
                   calculateDronePositions(coordinates[2], coordinates[1], nd, fa)
       ELSE UNCHANGED << calcCalled, dronePositions >>

SetNumDrones(nd) ==
    /\ recalcs < MaxRecalcs
    /\ nd # numDrones
    /\ numDrones' = nd
    /\ recalcs' = recalcs + 1
    /\ Recalculated(nd, feetApart)
    /\ UNCHANGED << feetApart, speed, isMoving, direction, edits, coordinates,
                    now >>

SetFeetApart(fa) ==
    /\ recalcs < MaxRecalcs
    /\ fa # feetApart
    /\ feetApart' = fa
    /\ recalcs' = recalcs + 1
    /\ Recalculated(numDrones, fa)
    /\ UNCHANGED << numDrones, speed, isMoving, direction, edits, coordinates,
                    now >>

\* A change of the motion controls: the animation effect runs again.
SetSpeed(spd) ==
    /\ edits < MaxEdits
    /\ spd # speed
    /\ speed' = spd
    /\ edits' = edits + 1
    /\ refs' = animationRerun(refs, isMoving, spd, direction)
    /\ UNCHANGED << numDrones, feetApart, isMoving, direction, recalcs, coordinates,
                    now, calcCalled, dronePositions >>

SetDirection(dir) ==
    /\ edits < MaxEdits
    /\ dir # direction
    /\ direction' = dir
    /\ edits' = edits + 1
    /\ refs' = animationRerun(refs, isMoving, speed, dir)
    /\ UNCHANGED << numDrones, feetApart, speed, isMoving, recalcs, coordinates,
                    now, calcCalled, dronePositions >>

\* The Start/Stop button: setIsMoving(!isMoving).
ToggleMoving ==
    /\ edits < MaxEdits
    /\ isMoving' = ~isMoving
    /\ edits' = edits + 1
    /\ refs' = animationRerun(refs, ~isMoving, speed, direction)
    /\ UNCHANGED << numDrones, feetApart, speed, direction, recalcs, coordinates,
                    now, calcCalled, dronePositions >>

\* An animation frame: the browser runs a pending callback with the time.
Frame(f) ==
    /\ refs' = animate(refs, f, now)
    /\ UNCHANGED << numDrones, feetApart, speed, isMoving, direction, edits, recalcs,
                    coordinates, now, calcCalled, dronePositions >>

\* Time passes.
Elapse(dt) ==
    /\ now + dt <= MaxTime + 1
    /\ now' = now + dt
    /\ UNCHANGED << numDrones, feetApart, speed, isMoving, direction, edits, recalcs,
                    coordinates, refs, calcCalled, dronePositions >>

Next ==
    \/ \E c \in Centres : GeocodeResolved(c)
    \/ MapCreated
    \/ MapLoad
    \/ \E m \in 1..Len(refs.maps) : Load200(m)
    \/ \E m \in 1..Len(refs.maps) : Load300(m)
    \/ \E m \in 1..Len(refs.maps) : Timeout1500(m)
    \/ \E m \in 1..Len(refs.maps) : Timeout3000(m)
    \/ \E m \in 1..Len(refs.maps) : Timeout5000(m)
    \/ \E nd \in NumDronesOptions : SetNumDrones(nd)
    \/ \E fa \in FeetOptions : SetFeetApart(fa)
    \/ \E spd \in SpeedOptions : SetSpeed(spd)
    \/ \E dir \in DirectionOptions : SetDirection(dir)
    \/ ToggleMoving
    \/ \E f \in refs.frames : Frame(f)
    \/ \E dt \in Intervals : Elapse(dt)

Spec == Init /\ [][Next]_vars

\* ------------------------------------- calculateDronePositions on its own

CalcInit ==
    /\ numDrones \in CalcDroneCounts
    /\ feetApart \in CalcFeet
    /\ coordinates \in Centres
    /\ speed = 5
    /\ isMoving = TRUE
    /\ direction = "N"
    /\ edits = 0
    /\ recalcs = 0
    /\ now = 1
    /\ refs = InitRefs
    /\ calcCalled = FALSE
    /\ dronePositions = << >>

\* One call calculateDronePositions(coordinates[1], coordinates[0]).
Calculate ==
    /\ ~calcCalled
    /\ calcCalled' = TRUE
    /\ dronePositions' = calculateDronePositions(coordinates[2], coordinates[1],
                                                 numDrones, feetApart)
    /\ UNCHANGED << numDrones, feetApart, speed, isMoving, direction, edits, recalcs,
                    coordinates, now, refs >>

CalcNext == Calculate

CalcSpec == CalcInit /\ [][CalcNext]_vars

\* ------------------------------------------------ the component on its own

\* Props a parent can give Map, beyond those the page's controls offer.
MapDroneCounts == {1, 4}

MapFeet == {100, Infinity}

MapDirections == Directions \cup {"", "unknown", "constructor"}

\* Map mounted with props of the parent's choice (isMoving defaults to
\* false); the parent sets isMoving and changes numDrones later on.
MapInit ==
    /\ numDrones \in MapDroneCounts
    /\ feetApart \in MapFeet
    /\ speed = 5
    /\ isMoving = FALSE
    /\ direction \in MapDirections
    /\ edits = 0
    /\ recalcs = 0
    /\ coordinates = Null
    /\ now = 1
    /\ refs = InitRefs
    /\ calcCalled = FALSE
    /\ dronePositions = << >>

\* geocodeAddress ends, with whatever outcome (the address stays the same:
\* it is called once).
GeocodeEnded(o) == coordinates = Null /\ GeocodeResolved(geocodeAddress(o))

\* The parent sets isMoving to true.
StartMoving == ~isMoving /\ ToggleMoving

MapNext ==
    \/ \E o \in GeocodeOutcomes : GeocodeEnded(o)
    \/ MapCreated
    \/ MapLoad
    \/ \E m \in 1..Len(refs.maps) : Load200(m)
    \/ \E m \in 1..Len(refs.maps) : Load300(m)
    \/ \E m \in 1..Len(refs.maps) : Timeout1500(m)
    \/ \E m \in 1..Len(refs.maps) : Timeout3000(m)
    \/ \E m \in 1..Len(refs.maps) : Timeout5000(m)
    \/ \E nd \in MapDroneCounts : SetNumDrones(nd)
    \/ StartMoving
    \/ \E f \in refs.frames : Frame(f)
    \/ \E dt \in Intervals : Elapse(dt)

MapSpec == MapInit /\ [][MapNext]_vars

\* ----------------------------------------------------------------- claims

\* Ground offsets, in centi-feet, of point p from point c: north along the
\* meridian, east along the parallel of the centre.
DivSym(x, d) == Sgn(x) * (Abs(x) \div d)

NorthCf(p, c) == DivSym(p[2] - c[2], UnitsPerCentiFoot)

EastCf(p, c) ==
    DivSym(MulFix(p[1] - c[1], CosCenterLat(coordinates[2])), UnitsPerCentiFoot)

\* The square of the ground distance between p and q, in cf.
Dist2(p, q) == NorthCf(p, q) * NorthCf(p, q) + EastCf(p, q) * EastCf(p, q)

\* The squared distance d2 is that of length len to within 1 per cent.
Within1Percent(d2, len) == Abs(d2 - len * len) <= (len * len) \div 50

\* The next index around the formation, wrapping from the last to the first.
NextIndex(i, n) == (i % n) + 1

\* spacingFeet / (2 * sin(pi / droneCount)), in cf.
ClaimedRadius == (feetApart * 100 * SinScale) \div (2 * Sin(Grid \div (2 * numDrones)))

C2_SingleDroneAtCentre ==
    (calcCalled /\ numDrones <= 1) => dronePositions = << coordinates >>

CurrentFormation ==
    calculateDronePositions(coordinates[2], coordinates[1], numDrones, feetApart)

\* p is no point of any formation the model can compute: it has moved.
Displaced(p) ==
    \A c \in Centres, nd \in NumDronesOptions, fa \in FeetOptions :
        \A k \in 1..nd : p # calculateDronePositions(c[2], c[1], nd, fa)[k]

\* A step is a tick: a pending animation-frame callback ran.
IsTick == \E f \in refs.frames : Frame(f)

\* The integrator is running: an animation-frame callback is pending.
Running == refs.frames # {}

C5_StoppedIsIdle ==
    ~isMoving => (refs.frames = {} /\ refs.animationRef = 0)

C5_Witness ==
    /\ ~isMoving
    /\ refs.lastTimeRef > 1
    /\ Len(refs.markersRef) > 0
    /\ Displaced(refs.dronePositionsRef[1])

\* C6: tearing down the formation (a recompute that empties the arrays, or
\* the map effect's cleanup) cancels any pending animation-frame callback.
C6_TeardownCancels ==
    [][(recalcs' # recalcs /\ Len(refs.markersRef) > 0) => refs'.frames = {}]_vars

\* C7: a transition to Running resets the last-tick timestamp, the first
\* tick after it (the timestamp is still reset) has zero elapsed time and
\* moves no drone, and every other tick displaces by the time since the
\* previous tick of the same running period.
C7_FirstTickIsNoOp ==
    [][/\ (edits' # edits /\ refs'.frames # {}) => refs'.lastTimeRef = 0
       /\ IsTick =>
            /\ refs'.lastTimeRef = now
            /\ refs.lastTimeRef = 0 =>
                 refs'.dronePositionsRef = refs.dronePositionsRef
            /\ \A f \in refs.frames, i \in 1..Len(refs.markersRef) :
                 /\ refs'.dronePositionsRef[i][2] - refs.dronePositionsRef[i][2]
                      = IF refs.lastTimeRef = 0 THEN 0
                        ELSE f.speed * (now - refs.lastTimeRef) * vector(f.direction)[1]
                 /\ refs'.dronePositionsRef[i][1] - refs.dronePositionsRef[i][1]
                      = IF refs.lastTimeRef = 0 THEN 0
                        ELSE f.speed * (now - refs.lastTimeRef) * vector(f.direction)[2]
      ]_vars

\* Restarted after a pause: the drones have moved, were stopped, and a
\* callback is pending again with the timestamp reset, later on the clock.
C7_Witness ==
    /\ isMoving
    /\ edits = 3
    /\ speed = 10
    /\ direction = "N"
    /\ Running
    /\ refs.lastTimeRef = 0
    /\ now > 1001
    /\ Len(refs.markersRef) > 0
    /\ Displaced(refs.dronePositionsRef[1])

\* A step changes speed or direction while the integrator is running and
\* has ticked.
ParameterChange ==
    /\ speed' # speed \/ direction' # direction
    /\ isMoving
    /\ Running
    /\ refs.lastTimeRef # 0

\* C8, as claimed: a change of speed or direction while Running does not
\* reset the last-tick timestamp.
C8_TimestampKept ==
    [][ParameterChange => refs'.lastTimeRef = refs.lastTimeRef]_vars

\* C8, amended: a change of speed or direction while Running cancels the
\* pending callback and moves no drone by itself.  With drone markers on a
\* map, one new callback is requested that has the new speed and direction
\* and the last-tick timestamp is reset, so the next tick has zero elapsed
\* time; with none, the integrator goes Idle.  Every pending callback has
\* the current speed and direction.
C8_TimestampReset ==
    [][/\ \A f \in refs'.frames : f.speed = speed' /\ f.direction = direction'
       /\ ParameterChange =>
            /\ refs'.dronePositionsRef = refs.dronePositionsRef
            /\ IF refs.mapCur # 0 /\ Len(refs.markersRef) > 0
               THEN /\ refs'.lastTimeRef = 0
                    /\ Cardinality(refs'.frames) = 1
                    /\ refs'.animationRef # 0
               ELSE /\ refs'.frames = {}
                    /\ refs'.animationRef = 0
      ]_vars

C8_Witness ==
    /\ isMoving
    /\ Running
    /\ speed = 10
    /\ direction = "SW"
    /\ edits = 2
    /\ refs.lastTimeRef = 0
    /\ Len(refs.markersRef) > 0
    /\ Displaced(refs.dronePositionsRef[1])

\* C9: the integrator is Running whenever moving is true and a formation
\* with at least one drone is on the map.
C9_RunningWhenMoving ==
    (isMoving /\ refs.mapCur # 0 /\ Len(refs.markersRef) > 0) => Running

\* No timeout or load callback of the map remains pending.
Quiescent ==
    /\ refs.initTimer = {}
    /\ refs.mapCur # 0
    /\ \A m \in 1..Len(refs.maps) : refs.maps[m].a = 4 /\ refs.maps[m].b = "done"

\* C10: once no callback remains pending, the drone markers and the stored
\* positions that go with them are the formation of the current numDrones
\* and feetApart (here: before any motion, so exactly that formation).
C10_CurrentFormationInstalled ==
    (Quiescent /\ edits = 0) =>
        /\ refs.markersRef = CurrentFormation
        /\ Len(refs.dronePositionsRef) >= Len(CurrentFormation)
        /\ \A i \in 1..Len(CurrentFormation) :
              refs.dronePositionsRef[i] = CurrentFormation[i]

\* The drones a tick moves: the markers that have a stored position.
Drones(r) ==
    IF Len(r.markersRef) <= Len(r.dronePositionsRef)
    THEN 1..Len(r.markersRef) ELSE 1..Len(r.dronePositionsRef)

\* C11: for every direction that is not one of the eight compass names, a
\* tick behaves as it does for direction N: every drone's latitude grows by
\* what N adds to it (never decreases), and its longitude is unchanged.
C11_UnknownDirectionIsNorth ==
    [][\A f \in refs.frames :
          (Frame(f) /\ f.isMoving /\ f.direction \notin Directions) =>
              /\ refs'.dronePositionsRef =
                     animate(refs, [f EXCEPT !.direction = "N"], now).dronePositionsRef
              /\ \A i \in Drones(refs) :
                    /\ refs'.dronePositionsRef[i][1] = refs.dronePositionsRef[i][1]
                    /\ refs'.dronePositionsRef[i][2] >= refs.dronePositionsRef[i][2]
      ]_vars

\* The table of C12, [lat, lon] factors in thousandths.
ClaimedFactors ==
    [ d \in Directions |->
        CASE d = "N"  -> <<1000, 0>>
          [] d = "NE" -> <<707, 707>>
          [] d = "E"  -> <<0, 1000>>
          [] d = "SE" -> <<-707, 707>>
          [] d = "S"  -> <<-1000, 0>>
          [] d = "SW" -> <<-707, -707>>
          [] d = "W"  -> <<0, -1000>>
          [] d = "NW" -> <<707, -707>> ]

\* Elapsed times of the ticks that are compared with one another.
TickTimes == {0, 500}

\* The callback that animate left pending in r.
PendingOf(r) == CHOOSE g \in r.frames : g.id = r.animationRef

\* A tick after t1 followed by a tick after t2 more leaves the positions
\* that one tick after t1 + t2 leaves.
TicksAddUp ==
    \A f \in refs.frames :
        (f.isMoving /\ f.direction \in Directions /\ refs.lastTimeRef # 0) =>
            \A t1 \in TickTimes, t2 \in TickTimes :
                LET first  == animate(refs, f, now + t1)
                    second == animate(first, PendingOf(first), now + t1 + t2)
                    single == animate(refs, f, now + t1 + t2)
                IN  second.dronePositionsRef = single.dronePositionsRef

\* C12: a tick with speed s, direction d of the table and elapsed time e
\* changes every drone's latitude by s * e * latFactor(d) and its longitude
\* by s * e * lonFactor(d) (in u: s * 0.44704 / 111320 / 1000 degree per ms
\* is s thousand u per ms); so a tick with e = 0 changes nothing, and two
\* ticks of t1 and t2 leave what one tick of t1 + t2 leaves.
C12_TickDisplacement ==
    [][/\ TicksAddUp
       /\ \A f \in refs.frames :
            (Frame(f) /\ f.isMoving /\ f.direction \in Directions) =>
                LET e == IF refs.lastTimeRef = 0 THEN 0 ELSE now - refs.lastTimeRef
                    latDelta == f.speed * e * ClaimedFactors[f.direction][1]
                    lonDelta == f.speed * e * ClaimedFactors[f.direction][2]
                IN  /\ \A i \in Drones(refs) :
                         refs'.dronePositionsRef[i] =
                             << Plus(refs.dronePositionsRef[i][1], lonDelta),
                                Plus(refs.dronePositionsRef[i][2], latDelta) >>
                    /\ e = 0 => refs'.dronePositionsRef = refs.dronePositionsRef
      ]_vars

\* Four drones that two ticks, 1000 ms apart, have moved south-east at 5 mph.
C12_Witness ==
    /\ direction = "SE"
    /\ numDrones = 4
    /\ feetApart = 100
    /\ refs.lastTimeRef = 1001
    /\ refs.markersRef = refs.dronePositionsRef
    /\ Len(refs.dronePositionsRef) = 4
    /\ \A i \in 1..4 :
          refs.dronePositionsRef[i] =
              << CurrentFormation[i][1] + 5 * 1000 * 707,
                 CurrentFormation[i][2] - 5 * 1000 * 707 >>

\* The step is a call of the map effect's addMarkers (it adds an address
\* marker), or of the recalculate effect's (numDrones changed with drone
\* markers on a map); dronePositions' is what the call computed.
MapPlacement == refs'.addressMarkers = refs.addressMarkers + 1

RecalcPlacement ==
    /\ numDrones' # numDrones
    /\ refs.mapCur # 0
    /\ coordinates # Null
    /\ Len(refs.markersRef) > 0

HasNaN(p) == IsNaN(p[1]) \/ IsNaN(p[2])

\* How many of the first k computed positions have no NaN.
Rank(ps, k) == Cardinality({j \in 1..k : ~HasNaN(ps[j])})

C14_CentreIsValid ==
    coordinates # Null =>
        /\ Len(coordinates) = 2
        /\ ~IsNaN(coordinates[1])
        /\ ~IsNaN(coordinates[2])
        /\ ~IsInf(coordinates[1])
        /\ ~IsInf(coordinates[2])

\* C15: while coordinates is still null, calculateDronePositions has not
\* been called, and there is no drone marker and no stored position.
C15_NothingBeforeCentre ==
    coordinates = Null =>
        /\ ~calcCalled
        /\ dronePositions = << >>
        /\ refs.markersRef = << >>
        /\ refs.dronePositionsRef = << >>
        /\ refs.mapCur = 0

\* The controls have been used and time has passed while geocoding is
\* still pending.
C15_Witness ==
    /\ coordinates = Null
    /\ numDrones = 4
    /\ edits = MaxEdits
    /\ speed = 10
    /\ now > 1000

\* A coordinate of the model that is a number lies within 0.01 degree of
\* the datum (latitude 39.0997, longitude -94.5786); Huge, Infinity and NaN
\* are beyond 180 degrees or no number at all.
InRange(x) == ~IsHuge(x)

\* C16: every stored drone position has its latitude within [-90, 90] and
\* its longitude within [-180, 180].
C16_PositionsInRange ==
    \A i \in 1..Len(refs.dronePositionsRef) :
        /\ InRange(refs.dronePositionsRef[i][1])
        /\ InRange(refs.dronePositionsRef[i][2])

\* C17: the marker array and the position array have the same length, and
\* entry i of the position array is the position of marker i.
C17_ArraysParallel ==
    /\ Len(refs.markersRef) = Len(refs.dronePositionsRef)
    /\ \A i \in 1..Len(refs.markersRef) :
          refs.markersRef[i] = refs.dronePositionsRef[i]

\* C18: at most one animation-frame callback is pending, and it is the one
\* animationRef holds; a frame runs one tick and leaves at most one pending.
C18_OneFramePending ==
    /\ Cardinality(refs.frames) <= 1
    /\ \A f \in refs.frames : f.id = refs.animationRef

\* After every edit the model allows (stop, start, a change of speed), a
\* single callback is pending and the drones have moved.
C18_Witness ==
    /\ edits = MaxEdits
    /\ isMoving
    /\ speed = 10
    /\ Cardinality(refs.frames) = 1
    /\ refs.lastTimeRef # 0
    /\ Len(refs.markersRef) > 0
    /\ Displaced(refs.dronePositionsRef[1])

\* C19: once the map's addMarkers has been called, however often (before
\* any edit, recalculation or tick), the map holds one address marker and
\* the drone markers and stored positions that one call leaves.
C19_AddMarkersIdempotent ==
    (refs.mapCur # 0 /\ refs.addressMarkers >= 1 /\ edits = 0 /\ recalcs = 0) =>
        /\ refs.addressMarkers = 1
        /\ refs.markersRef = CurrentFormation
        /\ refs.dronePositionsRef = CurrentFormation

====
